---- MODULE Spec2Model ----
(***************************************************************************)
(* Economic Zone Environmental Monitoring dashboard (src/app.py).          *)
(*                                                                         *)
(* The script builds two reading stores (the air and the water rows, a     *)
(* list of dicts turned into a DataFrame) and then renders the dashboard   *)
(* top to bottom in one synchronous pass: headline metrics, per-station    *)
(* status cards, the compliance table and the alert list.                  *)
(*                                                                         *)
(* The rows are the input of the pipeline: the generator that fills the    *)
(* lists is a stand-in data source, so a row is any (date, site, values)   *)
(* drawn from small sets, in any order and any number, duplicates and      *)
(* empty stores included.  Values are integers: PM2.5 and SO2 in whole     *)
(* units, pH in tenths (6.5 is 65), compliance rates in tenths of a        *)
(* percent (90 is 900).  A mean is kept exact as a sum and a row count.    *)
(* The biodiversity rows take part in no decision and are left out.        *)
(***************************************************************************)
EXTENDS Integers, Sequences, FiniteSets

VARIABLES air_data, water_data, pc,
          avg_pm25, status, avg_ph, ph_status, alerts_count,
          station_cards, compliance_df, compliance_cards,
          alerts, alert_display

vars == <<air_data, water_data, pc, avg_pm25, status, avg_ph, ph_status,
          alerts_count, station_cards, compliance_df, compliance_cards,
          alerts, alert_display>>

outputs == <<avg_pm25, status, avg_ph, ph_status, alerts_count,
             station_cards, compliance_df, compliance_cards,
             alerts, alert_display>>

(* ---------------------------- bounds ----------------------------------- *)
MaxAir == 2
MaxWater == 1

Dates == {1, 2}
monitoring_stations == {"Industrial Area", "Residential Area"}
water_bodies == {"Canal Industrial"}
PM25Values == {20, 35, 40}
SO2Values == {10, 25}
pHValues == {60, 70, 90}
Rates == 0..1000

(* ------------------------ thresholds of the code ----------------------- *)
PM25_MAX == 35
SO2_MAX == 20
PH_MIN == 65
PH_MAX == 85
Pct(n) == n * 10

(* ------------------------------ helpers -------------------------------- *)
RECURSIVE SumCol(_, _)
SumCol(df, col) ==
    IF df = <<>> THEN 0 ELSE Head(df)[col] + SumCol(Tail(df), col)

\* Series.mean(): kept as the exact pair (sum, number of rows).
Mean(df, col) == [sum |-> SumCol(df, col), n |-> Len(df)]

ColumnValues(df, col) == {df[i][col] : i \in 1..Len(df)}

\* df['Date'].max()
MaxDate(df) ==
    CHOOSE d \in ColumnValues(df, "Date") :
        \A e \in ColumnValues(df, "Date") : e <= d

\* df[df['Date'] == df['Date'].max()]
LatestRows(df) == SelectSeq(df, LAMBDA r : r.Date = MaxDate(df))

\* len(df[df[col] > limit]) and len(df[df[col] < limit])
CountAbove(df, col, limit) == Len(SelectSeq(df, LAMBDA r : r[col] > limit))
CountBelow(df, col, limit) == Len(SelectSeq(df, LAMBDA r : r[col] < limit))

(* ------------------------------ state ---------------------------------- *)
NoMean == [sum |-> 0, n |-> 0]
NotEvaluated == [kind |-> "none", lines |-> <<>>]

Init ==
    /\ air_data = <<>>
    /\ water_data = <<>>
    /\ pc = "air"
    /\ avg_pm25 = NoMean
    /\ status = "none"
    /\ avg_ph = NoMean
    /\ ph_status = "none"
    /\ alerts_count = 0
    /\ station_cards = [station \in {} |-> 0]
    /\ compliance_df = <<>>
    /\ compliance_cards = <<>>
    /\ alerts = <<>>
    /\ alert_display = NotEvaluated

\* air_data.append({...})
RecordAir ==
    /\ pc = "air"
    /\ Len(air_data) < MaxAir
    /\ \E d \in Dates, s \in monitoring_stations, p \in PM25Values, q \in SO2Values :
          air_data' = Append(air_data,
                             [Date |-> d, Station |-> s, PM25 |-> p, SO2 |-> q])
    /\ UNCHANGED <<water_data, pc, outputs>>

\* air_df = pd.DataFrame(air_data): the air rows are complete, water follows
FinishAir ==
    /\ pc = "air"
    /\ pc' = "water"
    /\ UNCHANGED <<air_data, water_data, outputs>>

\* water_data.append({...})
RecordWater ==
    /\ pc = "water"
    /\ Len(water_data) < MaxWater
    /\ \E d \in Dates, w \in water_bodies, h \in pHValues :
          water_data' = Append(water_data,
                               [Date |-> d, Water_Body |-> w, pH |-> h])
    /\ UNCHANGED <<air_data, pc, outputs>>

(* ------------------- Executive Summary (key metrics) ------------------- *)
\* mutant: the mean of the whole history instead of the latest date's rows
AvgPM25AllRows(air_df) == Mean(air_df, "PM25")

\* avg_pm25 = latest_air['PM2.5'].mean()
AvgPM25(air_df) == Mean(LatestRows(air_df), "PM25")

\* "Alert" if avg_pm25 > 35 else "Normal"
PM25Status(avg) == IF avg.sum > PM25_MAX * avg.n THEN "Alert" ELSE "Normal"

\* avg_ph = latest_water['pH'].mean()
AvgPH(water_df) == Mean(LatestRows(water_df), "pH")

\* "Alert" if avg_ph < 6.5 or avg_ph > 8.5 else "Normal"
PHStatus(avg) ==
    IF avg.sum < PH_MIN * avg.n \/ avg.sum > PH_MAX * avg.n
    THEN "Alert" ELSE "Normal"

\* len(air_df[air_df['PM2.5'] > 35]) + len(water_df[water_df['pH'] < 6.5])
AlertsCount(air_df, water_df) ==
    CountAbove(air_df, "PM25", PM25_MAX) + CountBelow(water_df, "pH", PH_MIN)

(* ------------------ Current Air Quality Status by Station -------------- *)
\* mutant: the limit itself counts as a breach (pm25 >= 35)
ClassifyInclusive(pm25) == IF pm25 >= PM25_MAX THEN "POOR" ELSE "GOOD"

\* if pm25 > 35: POOR else: GOOD
Classify(pm25) == IF pm25 > PM25_MAX THEN "POOR" ELSE "GOOD"

\* one card per group of latest_air_data.groupby('Station'); the card shows
\* data['PM2.5'].iloc[0], the first row of the group, and its class
StationCards(air_df) ==
    LET latest_air_data == LatestRows(air_df)
    IN  [station \in ColumnValues(latest_air_data, "Station") |->
            LET data == SelectSeq(latest_air_data, LAMBDA r : r.Station = station)
                pm25 == data[1].PM25
            IN  [pm25 |-> pm25, status |-> Classify(pm25)]]

(* ------------------------ EIA Compliance table ------------------------- *)
compliance_data ==
    << [Parameter |-> "Air Quality Standards",   Rate |-> Pct(85), Status |-> "Partially Compliant"],
       [Parameter |-> "Water Discharge Limits",  Rate |-> Pct(90), Status |-> "Compliant"],
       [Parameter |-> "Noise Pollution",         Rate |-> Pct(95), Status |-> "Compliant"],
       [Parameter |-> "Waste Management",        Rate |-> Pct(80), Status |-> "Needs Improvement"],
       [Parameter |-> "Biodiversity Protection", Rate |-> Pct(75), Status |-> "Needs Improvement"],
       [Parameter |-> "Community Health",        Rate |-> Pct(88), Status |-> "Compliant"] >>

\* mutant: the upper tie excluded (rate > 90)
ComplianceCardStrict(rate) ==
    IF rate > Pct(90) THEN "safe-card"
    ELSE IF rate >= Pct(75) THEN "attention-card"
    ELSE "warning-card"

\* if rate >= 90: safe-card; elif rate >= 75: the amber card; else: warning-card
ComplianceCard(rate) ==
    IF rate >= Pct(90) THEN "safe-card"
    ELSE IF rate >= Pct(75) THEN "attention-card"
    ELSE "warning-card"

\* for _, row in compliance_df.iterrows(): one card per row, in row order
ComplianceCards(df) ==
    [i \in 1..Len(df) |->
        [Parameter |-> df[i].Parameter, Rate |-> df[i].Rate,
         card |-> ComplianceCard(df[i].Rate)]]

(* ------------------------- Environmental Alerts ------------------------ *)
HighPM25 == "HIGH PM2.5 levels detected in Industrial Area"
LowPH == "LOW pH levels detected in Canal Industrial"
ElevatedSO2 == "Elevated SO2 levels in multiple stations"
NoAlerts == "No critical environmental alerts at this time"

\* mutant: the two air tests first, the water test last
GenerateAlertsByDomain(air_df, water_df) ==
    LET a1 == IF CountAbove(air_df, "PM25", PM25_MAX) > 0 THEN <<HighPM25>> ELSE <<>>
        a2 == IF CountBelow(water_df, "pH", PH_MIN) > 0 THEN <<LowPH>> ELSE <<>>
        a3 == IF CountAbove(air_df, "SO2", SO2_MAX) > 0 THEN <<ElevatedSO2>> ELSE <<>>
    IN  a1 \o a3 \o a2

\* mutant: one PM2.5 line per offending reading instead of one per condition
GenerateAlertsPerReading(air_df, water_df) ==
    LET a1 == [i \in 1..CountAbove(air_df, "PM25", PM25_MAX) |-> HighPM25]
        a2 == IF CountBelow(water_df, "pH", PH_MIN) > 0 THEN <<LowPH>> ELSE <<>>
        a3 == IF CountAbove(air_df, "SO2", SO2_MAX) > 0 THEN <<ElevatedSO2>> ELSE <<>>
    IN  a1 \o a2 \o a3

\* alerts = []; three tests in this order, each appends at most one line
GenerateAlerts(air_df, water_df) ==
    LET a1 == IF CountAbove(air_df, "PM25", PM25_MAX) > 0 THEN <<HighPM25>> ELSE <<>>
        a2 == IF CountBelow(water_df, "pH", PH_MIN) > 0 THEN <<LowPH>> ELSE <<>>
        a3 == IF CountAbove(air_df, "SO2", SO2_MAX) > 0 THEN <<ElevatedSO2>> ELSE <<>>
    IN  a1 \o a2 \o a3

\* if alerts: st.error(alert) for each; else: st.success(no alerts)
DisplayAlerts(list) ==
    IF list # <<>> THEN [kind |-> "error", lines |-> list]
    ELSE [kind |-> "success", lines |-> <<NoAlerts>>]

(* --------------------------- one script run ---------------------------- *)
\* The whole page: every section in source order.  A store without rows is a
\* DataFrame without columns, so air_df['Date'] (line 175) or
\* water_df['Date'] (line 181) raises KeyError and the run stops there.
RenderPage ==
    IF air_data = <<>>
    THEN /\ pc' = "error"
         /\ UNCHANGED outputs
    ELSE IF water_data = <<>>
    THEN /\ pc' = "error"
         /\ avg_pm25' = AvgPM25(air_data)
         /\ status' = PM25Status(AvgPM25(air_data))
         /\ UNCHANGED <<avg_ph, ph_status, alerts_count, station_cards,
                        compliance_df, compliance_cards, alerts, alert_display>>
    ELSE /\ pc' = "done"
         /\ avg_pm25' = AvgPM25(air_data)
         /\ status' = PM25Status(AvgPM25(air_data))
         /\ avg_ph' = AvgPH(water_data)
         /\ ph_status' = PHStatus(AvgPH(water_data))
         /\ alerts_count' = AlertsCount(air_data, water_data)
         /\ station_cards' = StationCards(air_data)
         /\ compliance_df' = compliance_data
         /\ compliance_cards' = ComplianceCards(compliance_data)
         /\ alerts' = GenerateAlerts(air_data, water_data)
         /\ alert_display' = DisplayAlerts(GenerateAlerts(air_data, water_data))

\* first run of the script once generate_environmental_data() has returned
Render ==
    /\ pc = "water"
    /\ RenderPage
    /\ UNCHANGED <<air_data, water_data>>

\* a widget interaction reruns the script on the cached stores
Rerun ==
    /\ pc = "done"
    /\ RenderPage
    /\ UNCHANGED <<air_data, water_data>>

Next == RecordAir \/ FinishAir \/ RecordWater \/ Render \/ Rerun

Spec == Init /\ [][Next]_vars

(* ------------- the compliance rendering loop on its own ---------------- *)
\* The table of the source holds six fixed rates.  To check the loop on every
\* rate, SpecBand starts from a table of two rows whose rates are neighbours
\* (r and the next tenth of a percent) and runs lines 290-296 on it.
RateRow(r) == [Parameter |-> "Air Quality Standards", Rate |-> r, Status |-> "none"]

InitBand ==
    /\ air_data = <<>>
    /\ water_data = <<>>
    /\ pc = "compliance"
    /\ avg_pm25 = NoMean
    /\ status = "none"
    /\ avg_ph = NoMean
    /\ ph_status = "none"
    /\ alerts_count = 0
    /\ station_cards = [station \in {} |-> 0]
    /\ \E r \in Rates :
          compliance_df = <<RateRow(r), RateRow(IF r + 1 \in Rates THEN r + 1 ELSE r)>>
    /\ compliance_cards = <<>>
    /\ alerts = <<>>
    /\ alert_display = NotEvaluated

RenderCompliance ==
    /\ pc = "compliance"
    /\ compliance_cards' = ComplianceCards(compliance_df)
    /\ pc' = "done"
    /\ UNCHANGED <<air_data, water_data, avg_pm25, status, avg_ph, ph_status,
                   alerts_count, station_cards, compliance_df, alerts,
                   alert_display>>

NextBand == RenderCompliance

SpecBand == InitBand /\ [][NextBand]_vars

(* ============================== claims ================================= *)
\* The tier a card stands for: the green card is Compliant, the amber card the
\* middle tier, the red card Needs Improvement.
BandOfCard(card) ==
    CASE card = "safe-card" -> "Compliant"
      [] card = "attention-card" -> "Partially Compliant"
      [] card = "warning-card" -> "Needs Improvement"

BandRank(band) ==
    CASE band = "Needs Improvement" -> 0
      [] band = "Partially Compliant" -> 1
      [] band = "Compliant" -> 2

\* C1: every rate in 0..100 is banded Compliant at 90 and above, the middle
\* tier from 75 up to but not including 90, Needs Improvement below 75; the
\* band of a rate is never worse than the band of a lower rate.
C1_BandingExact ==
    pc = "done" =>
        /\ \A i \in 1..Len(compliance_cards) :
              LET rate == compliance_cards[i].Rate
                  band == BandOfCard(compliance_cards[i].card)
              IN  /\ (rate >= 900) <=> (band = "Compliant")
                  /\ (rate >= 750 /\ rate < 900) <=> (band = "Partially Compliant")
                  /\ (rate < 750) <=> (band = "Needs Improvement")
        /\ \A i, j \in 1..Len(compliance_cards) :
              compliance_cards[i].Rate <= compliance_cards[j].Rate =>
                  BandRank(BandOfCard(compliance_cards[i].card))
                      <= BandRank(BandOfCard(compliance_cards[j].card))

\* the tie at 90: 89.9 is the middle tier and 90.0 is Compliant
C1_Witness ==
    /\ pc = "done"
    /\ Len(compliance_cards) = 2
    /\ compliance_cards[1].Rate = 899
    /\ compliance_cards[1].card = "attention-card"
    /\ compliance_cards[2].Rate = 900
    /\ compliance_cards[2].card = "safe-card"

\* C2: the Status stored with every compliance record is the band of the
\* record's own rate, so the stored status and the rendered card agree.
C2_StatusIsBandOfRate ==
    pc = "done" =>
        \A i \in 1..Len(compliance_df) :
            compliance_df[i].Status = BandOfCard(compliance_cards[i].card)

(* ------------------------- alerts: C3 to C6, C10 ----------------------- *)
AlertDomain(line) ==
    CASE line = HighPM25 -> "air"
      [] line = LowPH -> "water"
      [] line = ElevatedSO2 -> "air"

AlertMetric(line) ==
    CASE line = HighPM25 -> "PM2.5"
      [] line = LowPH -> "pH"
      [] line = ElevatedSO2 -> "SO2"

\* place of a condition in the order the code tests them
AlertRank(line) ==
    CASE line = HighPM25 -> 1
      [] line = LowPH -> 2
      [] line = ElevatedSO2 -> 3

AnyRow(df, P(_)) == \E i \in 1..Len(df) : P(df[i])

BreachPM25 == AnyRow(air_data, LAMBDA r : r.PM25 > 35)
BreachSO2 == AnyRow(air_data, LAMBDA r : r.SO2 > 20)
BreachPHLow == AnyRow(water_data, LAMBDA r : r.pH < 65)
BreachPHHigh == AnyRow(water_data, LAMBDA r : r.pH > 85)

HasAlert(domain, metric) ==
    \E i \in 1..Len(alerts) :
        AlertDomain(alerts[i]) = domain /\ AlertMetric(alerts[i]) = metric

\* C3 as stated: every air-domain alert comes before every water-domain alert.
C3_AirBeforeWater ==
    \A i, j \in 1..Len(alerts) :
        (AlertDomain(alerts[i]) = "air" /\ AlertDomain(alerts[j]) = "water") => i < j

\* C3 (amended): the alert list follows the order in which the code tests the
\* three conditions: PM2.5, then pH, then SO2; so the PM2.5 alert comes before
\* the pH alert and the SO2 alert, an air-domain alert, comes after it.
C3_DeclarationOrder ==
    \A i, j \in 1..Len(alerts) :
        i < j => AlertRank(alerts[i]) < AlertRank(alerts[j])

\* all three conditions breached in one evaluation
C3_Witness ==
    /\ pc = "done"
    /\ BreachPM25 /\ BreachPHLow /\ BreachSO2
    /\ alerts = <<HighPM25, LowPH, ElevatedSO2>>

\* C4: after an evaluation, every (domain, metric) pair with a rule that some
\* stored reading breaches (PM2.5 above 35, SO2 above 20, pH below 6.5 or
\* above 8.5) has an alert in the list.
C4_EveryBreachAlerted ==
    pc = "done" =>
        /\ BreachPM25 => HasAlert("air", "PM2.5")
        /\ BreachSO2 => HasAlert("air", "SO2")
        /\ (BreachPHLow \/ BreachPHHigh) => HasAlert("water", "pH")

\* C5: the alert list holds at most one alert per (domain, metric) pair,
\* however many readings or sites offend; one site at PM2.5 40 and another at
\* 20 on the same date, nothing else breached, give exactly one air alert.
C5_OneAlertPerPair ==
    pc = "done" =>
        /\ \A i, j \in 1..Len(alerts) :
              (/\ AlertDomain(alerts[i]) = AlertDomain(alerts[j])
               /\ AlertMetric(alerts[i]) = AlertMetric(alerts[j])) => i = j
        /\ (/\ Len(air_data) = 2
            /\ air_data[1].Date = air_data[2].Date
            /\ air_data[1].Station # air_data[2].Station
            /\ {air_data[1].PM25, air_data[2].PM25} = {40, 20}
            /\ ~BreachSO2)
           => Cardinality({i \in 1..Len(alerts) : AlertDomain(alerts[i]) = "air"}) = 1

\* two sites both offend on PM2.5, and the list holds a single PM2.5 alert
C5_Witness ==
    /\ pc = "done"
    /\ Len(air_data) = 2
    /\ air_data[1].Station # air_data[2].Station
    /\ air_data[1].PM25 = 40 /\ air_data[2].PM25 = 40
    /\ Cardinality({i \in 1..Len(alerts) : AlertMetric(alerts[i]) = "PM2.5"}) = 1

\* C6: when no stored reading breaches a rule, the empty store included, a
\* run ends with an empty alert list and the positive 'no alerts' message;
\* and that message is shown only with an empty alert list.
C6_NoBreachNoAlerts ==
    /\ (/\ pc \in {"done", "error"}
        /\ ~BreachPM25 /\ ~BreachSO2 /\ ~BreachPHLow /\ ~BreachPHHigh)
       => (alerts = <<>> /\ alert_display = [kind |-> "success", lines |-> <<NoAlerts>>])
    /\ alert_display.kind = "success" => alerts = <<>>

\* C10: the header's Active Alerts count is zero exactly when the alert list
\* is empty.
C10_CountZeroIffNoAlerts ==
    pc = "done" => (alerts_count = 0 <=> alerts = <<>>)

(* --------------------- station status: C7 and C8 ----------------------- *)
RowsOf(df, station) == {i \in 1..Len(df) : df[i].Station = station}

\* the indices of a station's readings at that station's most recent date
MostRecentOf(df, station) ==
    {i \in RowsOf(df, station) : \A j \in RowsOf(df, station) : df[j].Date <= df[i].Date}

\* among them, the one recorded last
LastRecordedOf(df, station) ==
    CHOOSE i \in MostRecentOf(df, station) : \A j \in MostRecentOf(df, station) : j <= i

SameKey(r1, r2) == r1.Date = r2.Date /\ r1.Station = r2.Station

\* C8: readings that share a key leave a single value in the store, and the
\* status of a station is computed from the reading recorded last.
C8_LastWriteWins ==
    pc = "done" =>
        /\ \A i, j \in 1..Len(air_data) :
              SameKey(air_data[i], air_data[j]) =>
                  (air_data[i].PM25 = air_data[j].PM25 /\ air_data[i].SO2 = air_data[j].SO2)
        /\ \A s \in DOMAIN station_cards :
              station_cards[s].pm25 = air_data[LastRecordedOf(air_data, s)].PM25

(* --------------------------- point summary: C9 ------------------------- *)
RECURSIVE SumAt(_, _, _)
SumAt(df, col, idx) ==
    IF idx = {} THEN 0
    ELSE LET i == CHOOSE k \in idx : TRUE
         IN  df[i][col] + SumAt(df, col, idx \ {i})

Sites(df) == ColumnValues(df, "Station")

UniqueKeys(df) == \A i, j \in 1..Len(df) : SameKey(df[i], df[j]) => i = j

\* C9 as stated, on stores without duplicate keys: the headline PM2.5 is the
\* mean, over the sites that have a reading, of each site's most recent value.
C9_MeanOfSiteLatest ==
    (pc = "done" /\ UniqueKeys(air_data)) =>
        avg_pm25.sum * Cardinality(Sites(air_data))
            = SumAt(air_data, "PM25", {LastRecordedOf(air_data, s) : s \in Sites(air_data)})
                * avg_pm25.n

AtStoreLatest(df) == {i \in 1..Len(df) : \A j \in 1..Len(df) : df[j].Date <= df[i].Date}

\* C9 (amended): the headline PM2.5 (and likewise the headline pH) is the
\* mean of all readings that carry the most recent date of the whole store; a
\* site without a reading on that date contributes nothing.
C9_MeanAtStoreLatest ==
    pc = "done" =>
        /\ avg_pm25.n = Cardinality(AtStoreLatest(air_data))
        /\ avg_pm25.sum = SumAt(air_data, "PM25", AtStoreLatest(air_data))
        /\ avg_ph.n = Cardinality(AtStoreLatest(water_data))
        /\ avg_ph.sum = SumAt(water_data, "pH", AtStoreLatest(water_data))

\* a site whose only reading is older than the store's latest date is left out
C9_Witness ==
    /\ pc = "done"
    /\ Len(air_data) = 2
    /\ air_data[1].Station # air_data[2].Station
    /\ air_data[1].Date < air_data[2].Date
    /\ air_data[1].PM25 = 40 /\ air_data[2].PM25 = 20
    /\ avg_pm25 = [sum |-> 20, n |-> 1]
====
